---- MODULE Spec2Model ----
(***************************************************************************)
(* A model of the path tracer in src/src/main.rs.                          *)
(*                                                                         *)
(* Numbers.  The program computes in f32.  The model computes in decimal   *)
(* fixed point: the integer n stands for the real n / FX, and every        *)
(* multiplication, division and square root rounds its exact result to the *)
(* nearest representable value, as an f32 operation does (at a coarser     *)
(* resolution).  Additions and subtractions are exact.  Values that are    *)
(* whole numbers or short decimals are computed exactly, so the boundary   *)
(* cases of the code (a root equal to 0, a discriminant equal to 0, a      *)
(* squared length equal to 1) are all representable.  Non-finite values    *)
(* (infinities, NaN) are outside the model: every ray has a direction with *)
(* dot(dir, dir) > 0 and every sphere a positive radius, which is what the *)
(* camera (dir.z = -1) and the bounce (unit normal + a vector shorter than *)
(* 1) produce.                                                             *)
(***************************************************************************)
EXTENDS Integers, Sequences, FiniteSets, TLC

VARIABLES pc, ray, objects, depth, stack, hit, p, target, ret, hits, tests,
          rejects, j, i, s, color, image, out, sphere, isect, pixel, spp, line

vars == <<pc, ray, objects, depth, stack, hit, p, target, ret, hits, tests,
          rejects, j, i, s, color, image, out, sphere, isect, pixel, spp, line>>

(***************************************************************************)
(* f32 arithmetic                                                          *)
(***************************************************************************)
\* One unit of the fixed-point representation: the integer FX stands for 1.0.
FX == 1000

Abs(n) == IF n < 0 THEN -n ELSE n

Sgn(n) == IF n < 0 THEN -1 ELSE 1

\* n / d rounded to the nearest integer, halves away from zero (d > 0).
RoundDiv(n, d) == Sgn(n) * ((Abs(n) + d \div 2) \div d)

\* f32 `*`
FMul(a, b) == RoundDiv(a * b, FX)

\* f32 `/` (the divisor is not 0)
FDiv(a, b) == Sgn(b) * RoundDiv(a * FX, Abs(b))

\* The element of a one-element set.  {e(v) : v \in {x}} computes x once,
\* however often e uses v.
The(S) == CHOOSE x \in S : TRUE

RECURSIVE ISqrtIn(_, _, _)
\* The largest r in lo..hi with r * r <= n, by bisection.
ISqrtIn(n, lo, hi) ==
    IF lo = hi THEN lo
    ELSE The({IF mid * mid <= n THEN ISqrtIn(n, mid, hi)
              ELSE ISqrtIn(n, lo, mid - 1) : mid \in {(lo + hi + 1) \div 2}})

\* f32::sqrt of a value >= 0: the root of n / FX, rounded to the nearest.
FSqrt(n) ==
    The({IF m - r * r > r THEN r + 1 ELSE r :
            <<m, r>> \in {<<n * FX, ISqrtIn(n * FX, 0, 46340)>>}})

\* `as i32` of a float: truncation toward zero to a whole number.
AsI32(a) == Sgn(a) * (Abs(a) \div FX)

\* `as f32` of an integer.
AsF32(n) == n * FX

(***************************************************************************)
(* Vec3                                                                    *)
(***************************************************************************)
Vec3_new(x, y, z) == [x |-> x, y |-> y, z |-> z]

len2(v) == FMul(v.x, v.x) + FMul(v.y, v.y) + FMul(v.z, v.z)

len(v) == FSqrt(len2(v))

dot(u, v) == FMul(u.x, v.x) + FMul(u.y, v.y) + FMul(u.z, v.z)

sub(u, v) == [x |-> u.x - v.x, y |-> u.y - v.y, z |-> u.z - v.z]

add(u, v) == [x |-> u.x + v.x, y |-> u.y + v.y, z |-> u.z + v.z]

mul(v, f) == [x |-> FMul(v.x, f), y |-> FMul(v.y, f), z |-> FMul(v.z, f)]

div(v, f) == [x |-> FDiv(v.x, f), y |-> FDiv(v.y, f), z |-> FDiv(v.z, f)]

neg(v) == [x |-> -v.x, y |-> -v.y, z |-> -v.z]

(***************************************************************************)
(* Ray, Sphere, Hit, Intersection                                          *)
(***************************************************************************)
Ray(origin, dir) == [origin |-> origin, dir |-> dir]

at(r, t) == add(r.origin, mul(r.dir, t))

Sphere(center, radius) == [center |-> center, radius |-> radius]

Hit_new(t, pt, normal, front) ==
    [t |-> t, p |-> pt, normal |-> normal, front |-> front]

Missed == [tag |-> "Missed"]

IsHit(h) == [tag |-> "Hit", hit |-> h]

\* The quantities Sphere::hit computes before it picks a root.
hit_oc(self, r) == sub(r.origin, self.center)

hit_a(self, r) == dot(r.dir, r.dir)

hit_half_b(self, r) == dot(hit_oc(self, r), r.dir)

hit_c(self, r) ==
    dot(hit_oc(self, r), hit_oc(self, r)) - FMul(self.radius, self.radius)

discriminant(self, r) ==
    FMul(hit_half_b(self, r), hit_half_b(self, r))
        - FMul(hit_a(self, r), hit_c(self, r))

\* A range check that rejects nothing.
OutOfRangeNever(root) == FALSE

\* `root < 0. || f32::INFINITY < root`: no finite root exceeds infinity.
OutOfRange(root) == root < 0

\* The record with the front test written <= instead of <.
hit_record_front_le(self, r, root) ==
    The({The({The({Hit_new(root, pt,
                           IF front THEN outward_normal
                           ELSE neg(outward_normal),
                           front) :
                     front \in {dot(r.dir, outward_normal) <= 0}}) :
               outward_normal \in {div(sub(pt, self.center), self.radius)}}) :
         pt \in {at(r, root)}})

\* The record with the outward normal stored whatever front is.
hit_record_no_flip(self, r, root) ==
    The({The({Hit_new(root, pt, outward_normal,
                      dot(r.dir, outward_normal) < 0) :
               outward_normal \in {div(sub(pt, self.center), self.radius)}}) :
         pt \in {at(r, root)}})

\* The record built from an accepted root (lines 199-207).
hit_record(self, r, root) ==
    The({The({The({Hit_new(root, pt,
                           IF front THEN outward_normal
                           ELSE neg(outward_normal),
                           front) :
                     front \in {dot(r.dir, outward_normal) < 0}}) :
               outward_normal \in {div(sub(pt, self.center), self.radius)}}) :
         pt \in {at(r, root)}})

\* The roots tried in the other order: the larger root first.
hit_roots_larger_first(self, r, root1, root2) ==
    IF OutOfRange(root2)
    THEN IF OutOfRange(root1) THEN Missed
         ELSE IsHit(hit_record(self, r, root1))
    ELSE IsHit(hit_record(self, r, root2))

\* Lines 191-197 and 207: the smaller root if it is in range, else the larger
\* root if it is, else no hit.
hit_roots(self, r, root1, root2) ==
    IF OutOfRange(root1)
    THEN IF OutOfRange(root2) THEN Missed
         ELSE IsHit(hit_record(self, r, root2))
    ELSE IsHit(hit_record(self, r, root1))

Sphere_hit(self, r) ==
    The({IF disc < 0 THEN Missed
         ELSE The({hit_roots(self, r, root1, root2) :
                      <<root1, root2>> \in
                          {<<FDiv(-half_b - FSqrt(disc), a),
                             FDiv(-half_b + FSqrt(disc), a)>>}}) :
            <<a, half_b, disc>> \in
                {<<hit_a(self, r), hit_half_b(self, r),
                   discriminant(self, r)>>}})

(***************************************************************************)
(* Camera                                                                  *)
(***************************************************************************)
aspect_ratio == FDiv(AsF32(16), AsF32(9))

viewport_height == AsF32(2)

viewport_width == FMul(aspect_ratio, viewport_height)

focal_length == AsF32(1)

Camera_new ==
    LET origin == Vec3_new(0, 0, 0)
        horizontal == Vec3_new(viewport_width, 0, 0)
        vertical == Vec3_new(0, viewport_height, 0)
    IN  [origin |-> origin,
         horizontal |-> horizontal,
         vertical |-> vertical,
         lower_left_corner |->
             sub(sub(sub(origin, div(horizontal, AsF32(2))),
                     div(vertical, AsF32(2))),
                 Vec3_new(0, 0, focal_length))]

get_ray(self, u, v) ==
    Ray(self.origin,
        sub(add(add(self.lower_left_corner, mul(self.horizontal, u)),
                mul(self.vertical, v)),
            self.origin))

(***************************************************************************)
(* Free functions                                                          *)
(***************************************************************************)
unit_vector(v) ==
    LET l == len(v)
    IN  [x |-> FDiv(v.x, l), y |-> FDiv(v.y, l), z |-> FDiv(v.z, l)]

\* A clip that forgets the upper bound.
clip_no_max(v, min, max) == IF v < min THEN min ELSE v

clip(v, min, max) ==
    IF v > max THEN max
    ELSE IF v < min THEN min
    ELSE v

\* random_double with the value r that rand::random::<f32>() returned.
random_double(min, max, r) == min + FMul(max - min, r)

\* Vec3::random with the three values rand::random returned.
Vec3_random(min, max, r1, r2, r3) ==
    [x |-> random_double(min, max, r1),
     y |-> random_double(min, max, r2),
     z |-> random_double(min, max, r3)]

\* The upper clamp of write_color, 0.999.
ClipMax == (999 * FX) \div 1000

\* One channel of write_color: (clip(v * scale, 0., 0.999) * 255.) as i32
write_channel(v, scale) == AsI32(FMul(clip(FMul(v, scale), 0, ClipMax), AsF32(255)))

\* The line write_color prints for pixel sum px: its three channels.
write_color(px, samples_per_pixel) ==
    LET scale == FDiv(AsF32(1), AsF32(samples_per_pixel))
    IN  <<write_channel(px.x, scale),
          write_channel(px.y, scale),
          write_channel(px.z, scale)>>

(***************************************************************************)
(* ray_color: its pure parts                                               *)
(***************************************************************************)
None == [tag |-> "None"]

Some(h) == [tag |-> "Some", h |-> h]

Black == Vec3_new(0, 0, 0)

\* A bounce that keeps all of the light.
AttenuationNone == FX

\* The attenuation of one bounce, 0.5.
Attenuation == FX \div 2

\* The comparison written <= instead of <: the last of equal hits is kept.
NearerOrEqual(h, kept) == IF kept = None THEN TRUE ELSE h.t <= kept.h.t

\* `h.t < tnear`: tnear is f32::INFINITY until a hit is kept, and the kept
\* hit's t from then on.
Nearer(h, kept) == IF kept = None THEN TRUE ELSE h.t < kept.h.t

RECURSIVE nearest_from(_, _, _, _)
\* The loop `for obj in objects` from its k-th iteration on, with `kept` the
\* hit kept so far.
nearest_from(r, objs, k, kept) ==
    IF k > Len(objs) THEN kept
    ELSE The({IF x.tag = "Missed" THEN nearest_from(r, objs, k + 1, kept)
              ELSE IF Nearer(x.hit, kept)
                   THEN nearest_from(r, objs, k + 1, Some(x.hit))
                   ELSE nearest_from(r, objs, k + 1, kept) :
                 x \in {Sphere_hit(objs[k], r)}})

\* Lines 258-274: the hit ray_color keeps.
nearest_hit(r, objs) == nearest_from(r, objs, 1, None)

\* Lines 291-293: the background gradient of a ray that hits nothing.
background(r) ==
    LET unit_direction == unit_vector(r.dir)
        t == FMul(FX \div 2, unit_direction.y + AsF32(1))
    IN  add(mul(Vec3_new(AsF32(1), AsF32(1), AsF32(1)), AsF32(1) - t),
            mul(Vec3_new(FX \div 2, (7 * FX) \div 10, AsF32(1)), t))

\* Lines 279-284: the bounce ray from hit h and the drawn point rnd.
bounce_target(h, rnd) == add(add(h.p, h.normal), rnd)

bounce_ray(h, rnd) == Ray(h.p, sub(bounce_target(h, rnd), h.p))

(***************************************************************************)
(* Bounds of the model and its input sets                                  *)
(***************************************************************************)
\* main's image_width (300 in the program).
image_width == 4

\* main's samples_per_pixel (50 in the program).
samples_per_pixel == 1

\* main's max_depth (50 in the program).
max_depth == 2

\* The largest depth a single ray_color call is started with.
MaxDepth == 2

\* The longest scene a single ray_color call is given.
MaxScene == 2

\* The consecutive rejected draws the model counts (the loop goes on past it).
MaxRejects == 2

\* Ray origins of the Sphere::hit checks: x in 0..MaxX, z in -MaxZ..0.
MaxX == 5

MaxZ == 15

\* The largest samples_per_pixel write_color is checked with.
MaxSamples == 2

\* The values rand::random::<f32>() takes, in [0, 1).
\* For the pixel jitter of main (lines 347-348):
JitterRand == {FX \div 2}

\* For the draws of random_in_unit_sphere inside main's render:
CoarseRand == {0, FX \div 2}

\* For the draws of random_in_unit_sphere in a single ray_color call:
FineRand == {0, FX \div 2, (3 * FX) \div 4}

image_height == AsI32(FDiv(AsF32(image_width), aspect_ratio))

\* main's scene (lines 312-339).
s1 == Sphere(Vec3_new(AsF32(9), 0, AsF32(-10)), AsF32(4))

s2 == Sphere(Vec3_new(0, 0, AsF32(-10)), AsF32(4))

s3 == Sphere(Vec3_new(AsF32(-9), 0, AsF32(-10)), AsF32(4))

main_objects == <<s1, s2, s3>>

(***************************************************************************)
(* State                                                                   *)
(*   pc                where control is                                    *)
(*   ray, objects, depth   the arguments of the running ray_color call     *)
(*                     (ray: of the call started last; a returning call    *)
(*                     no longer reads its ray)                            *)
(*   stack             the depth of each ray_color call waiting for its    *)
(*                     recursive call to return                            *)
(*   hit               ray_color's local `hit`                             *)
(*   p                 random_in_unit_sphere's local `p`                   *)
(*   target            ray_color's local `target`                          *)
(*   ret               the value the last return statement returned, of    *)
(*                     ray_color or of random_in_unit_sphere               *)
(*   hits, tests       the hits found and the Sphere::hit calls made since *)
(*                     the top-level ray_color call began                  *)
(*   rejects           the draws rejected so far in the running            *)
(*                     random_in_unit_sphere call (counted to MaxRejects)  *)
(*   j, i, s, color, image   main's loop variables and buffers             *)
(*   out               what main has printed: the header and body lines    *)
(*   sphere, isect     a sphere and what Sphere::hit returned for it       *)
(*   pixel, spp, line  write_color's arguments and the line it printed     *)
(***************************************************************************)
NoOut == [header |-> <<>>, body |-> <<>>]

\* The values of the variables an operation under check does not use.
IdleColor ==
    /\ ray = Ray(Black, Vec3_new(0, 0, AsF32(-1)))
    /\ objects = <<>>
    /\ depth = 0
    /\ stack = <<>>
    /\ hit = None
    /\ p = Black
    /\ target = Black
    /\ ret = Black
    /\ hits = 0
    /\ tests = 0
    /\ rejects = 0

IdleMain ==
    /\ j = 0
    /\ i = 0
    /\ s = 0
    /\ color = Black
    /\ image = <<>>
    /\ out = NoOut

IdleHit ==
    /\ sphere = s2
    /\ isect = None

IdleWrite ==
    /\ pixel = Black
    /\ spp = 1
    /\ line = <<>>

mainVars == <<j, i, s, color, image, out>>

hitVars == <<sphere, isect>>

writeVars == <<pixel, spp, line>>

(***************************************************************************)
(* ray_color (lines 253-296) and random_in_unit_sphere (lines 221-229)     *)
(***************************************************************************)
\* Lines 254-256: the depth budget is used up.
RayColorExhausted ==
    /\ pc = "ray_color"
    /\ depth <= 0
    /\ ret' = Black
    /\ pc' = "return"
    /\ UNCHANGED <<ray, objects, depth, stack, hit, p, target, hits, tests,
                   rejects>>
    /\ UNCHANGED <<mainVars, hitVars, writeVars>>

\* Lines 258-274: every sphere is tested and the nearest hit kept.
RayColorNearest ==
    /\ pc = "ray_color"
    /\ depth > 0
    /\ hit' = nearest_hit(ray, objects)
    /\ tests' = tests + Len(objects)
    /\ pc' = "match"
    /\ UNCHANGED <<ray, objects, depth, stack, p, target, ret, hits, rejects>>
    /\ UNCHANGED <<mainVars, hitVars, writeVars>>

\* Lines 290-294: nothing was hit.
RayColorBackground ==
    /\ pc = "match"
    /\ hit = None
    /\ ret' = background(ray)
    /\ pc' = "return"
    /\ UNCHANGED <<ray, objects, depth, stack, hit, p, target, hits, tests,
                   rejects>>
    /\ UNCHANGED <<mainVars, hitVars, writeVars>>

\* Line 279: a sphere was hit, and random_in_unit_sphere is called.
RayColorScatter ==
    /\ pc = "match"
    /\ hit # None
    /\ hits' = hits + 1
    /\ rejects' = 0
    /\ pc' = "random_in_unit_sphere"
    /\ UNCHANGED <<ray, objects, depth, stack, hit, p, target, ret, tests>>
    /\ UNCHANGED <<mainVars, hitVars, writeVars>>

\* The loop test written > instead of >=.
RejectedAboveOne(v) == len2(v) > AsF32(1)

\* The loop test of random_in_unit_sphere, line 224.
Rejected(v) == len2(v) >= AsF32(1)

\* One iteration of the loop of random_in_unit_sphere, with rand::random
\* taking its values in Rand: p is drawn; the loop goes on, or p is returned.
RandomInUnitSphere(Rand) ==
    /\ pc = "random_in_unit_sphere"
    /\ \E r1, r2, r3 \in Rand :
          p' = Vec3_random(AsF32(-1), AsF32(1), r1, r2, r3)
    /\ IF Rejected(p')
       THEN /\ pc' = "random_in_unit_sphere"
            /\ rejects' = IF rejects < MaxRejects THEN rejects + 1 ELSE rejects
            /\ ret' = ret
       ELSE /\ pc' = "bounce"
            /\ rejects' = 0
            /\ ret' = p'
    /\ UNCHANGED <<ray, objects, depth, stack, hit, target, hits, tests>>
    /\ UNCHANGED <<mainVars, hitVars, writeVars>>

\* The recursive call with depth passed on unchanged.
RayColorRecurseSameDepth ==
    /\ pc = "bounce"
    /\ target' = bounce_target(hit.h, ret)
    /\ ray' = bounce_ray(hit.h, ret)
    /\ stack' = Append(stack, depth)
    /\ depth' = depth
    /\ pc' = "ray_color"
    /\ UNCHANGED <<objects, hit, p, ret, hits, tests, rejects>>
    /\ UNCHANGED <<mainVars, hitVars, writeVars>>

\* Lines 279-287: the recursive call on the bounce ray, with depth - 1.
RayColorRecurse ==
    /\ pc = "bounce"
    /\ target' = bounce_target(hit.h, ret)
    /\ ray' = bounce_ray(hit.h, ret)
    /\ stack' = Append(stack, depth)
    /\ depth' = depth - 1
    /\ pc' = "ray_color"
    /\ UNCHANGED <<objects, hit, p, ret, hits, tests, rejects>>
    /\ UNCHANGED <<mainVars, hitVars, writeVars>>

\* Line 287: the recursive call returned, and its value is scaled by 0.5.
RayColorAttenuate ==
    /\ pc = "return"
    /\ stack # <<>>
    /\ ret' = mul(ret, Attenuation)
    /\ depth' = stack[Len(stack)]
    /\ stack' = SubSeq(stack, 1, Len(stack) - 1)
    /\ UNCHANGED <<pc, ray, objects, hit, p, target, hits, tests, rejects>>
    /\ UNCHANGED <<mainVars, hitVars, writeVars>>

RayColorNext(Rand) ==
    \/ RayColorExhausted
    \/ RayColorNearest
    \/ RayColorBackground
    \/ RayColorScatter
    \/ RandomInUnitSphere(Rand)
    \/ RayColorRecurse
    \/ RayColorAttenuate

(***************************************************************************)
(* main (lines 298-361)                                                    *)
(***************************************************************************)
\* Lines 347-350: one sample of pixel (i, j) is started.
MainSample ==
    /\ pc = "sample"
    /\ s < samples_per_pixel
    /\ \E r1, r2 \in JitterRand :
          LET u == FDiv(AsF32(i) + r1, AsF32(image_width - 1))
              v == FDiv(AsF32(j) + r2, AsF32(image_height - 1))
          IN  ray' = get_ray(Camera_new, u, v)
    /\ depth' = max_depth
    /\ hits' = 0
    /\ tests' = 0
    /\ pc' = "ray_color"
    /\ UNCHANGED <<objects, stack, hit, p, target, ret, rejects>>
    /\ UNCHANGED <<mainVars, hitVars, writeVars>>

\* Line 350: the top-level ray_color call returned and is added to color.
MainAccumulate ==
    /\ pc = "return"
    /\ stack = <<>>
    /\ color' = add(color, ret)
    /\ s' = s + 1
    /\ pc' = "sample"
    /\ UNCHANGED <<ray, objects, depth, stack, hit, p, target, ret, hits,
                   tests, rejects>>
    /\ UNCHANGED <<j, i, image, out, hitVars, writeVars>>

\* The push with the loops nested the other way: rows inside columns.
MainPushColumnMajor ==
    /\ pc = "sample"
    /\ s >= samples_per_pixel
    /\ image' = Append(image, color)
    /\ color' = Black
    /\ s' = 0
    /\ IF j > 0
       THEN /\ j' = j - 1
            /\ i' = i
            /\ pc' = "sample"
       ELSE IF i + 1 < image_width
            THEN /\ j' = image_height - 1
                 /\ i' = i + 1
                 /\ pc' = "sample"
            ELSE /\ i' = i
                 /\ j' = j
                 /\ pc' = "header"
    /\ UNCHANGED <<ray, objects, depth, stack, hit, p, target, ret, hits,
                   tests, rejects>>
    /\ UNCHANGED <<out, hitVars, writeVars>>

\* Line 352, and the step of the loops over i and j (lines 343-345).
MainPush ==
    /\ pc = "sample"
    /\ s >= samples_per_pixel
    /\ image' = Append(image, color)
    /\ color' = Black
    /\ s' = 0
    /\ IF i + 1 < image_width
       THEN /\ i' = i + 1
            /\ j' = j
            /\ pc' = "sample"
       ELSE IF j > 0
            THEN /\ i' = 0
                 /\ j' = j - 1
                 /\ pc' = "sample"
            ELSE /\ i' = i
                 /\ j' = j
                 /\ pc' = "header"
    /\ UNCHANGED <<ray, objects, depth, stack, hit, p, target, ret, hits,
                   tests, rejects>>
    /\ UNCHANGED <<out, hitVars, writeVars>>

\* Line 356: the header.
MainHeader ==
    /\ pc = "header"
    /\ out' = [header |-> <<"P3", image_width, image_height, 255>>,
               body |-> <<>>]
    /\ pc' = "write"
    /\ UNCHANGED <<ray, objects, depth, stack, hit, p, target, ret, hits,
                   tests, rejects>>
    /\ UNCHANGED <<j, i, s, color, image, hitVars, writeVars>>

\* Lines 357-359: one iteration of the writer's loop over the buffer.
MainWriteColor ==
    /\ pc = "write"
    /\ Len(out.body) < Len(image)
    /\ out' = [out EXCEPT !.body =
                  Append(@, write_color(image[Len(out.body) + 1],
                                        samples_per_pixel))]
    /\ UNCHANGED <<pc, ray, objects, depth, stack, hit, p, target, ret, hits,
                   tests, rejects>>
    /\ UNCHANGED <<j, i, s, color, image, hitVars, writeVars>>

\* Line 360: the writer's loop is over.
MainDone ==
    /\ pc = "write"
    /\ Len(out.body) >= Len(image)
    /\ pc' = "done"
    /\ UNCHANGED <<ray, objects, depth, stack, hit, p, target, ret, hits,
                   tests, rejects>>
    /\ UNCHANGED <<mainVars, hitVars, writeVars>>

\* The program: main from its first statement.
Init ==
    /\ pc = "sample"
    /\ ray = Ray(Black, Vec3_new(0, 0, AsF32(-1)))
    /\ objects = main_objects
    /\ depth = 0
    /\ stack = <<>>
    /\ hit = None
    /\ p = Black
    /\ target = Black
    /\ ret = Black
    /\ hits = 0
    /\ tests = 0
    /\ rejects = 0
    /\ j = image_height - 1
    /\ i = 0
    /\ s = 0
    /\ color = Black
    /\ image = <<>>
    /\ out = NoOut
    /\ IdleHit
    /\ IdleWrite

Next ==
    \/ MainSample
    \/ RayColorNext(CoarseRand)
    \/ MainAccumulate
    \/ MainPush
    \/ MainHeader
    \/ MainWriteColor
    \/ MainDone

Spec == Init /\ [][Next]_vars

\* The iteration of random_in_unit_sphere that draws an accepted point.
RandomAccepted == RandomInUnitSphere(CoarseRand) /\ pc' = "bounce"

\* The program runs on while it can, and no rejection loop draws rejected
\* points for ever.
FairSpec == Spec /\ WF_vars(Next) /\ WF_vars(RandomAccepted)

(***************************************************************************)
(* A single ray_color call, for every ray, scene and depth of a bounded set *)
(***************************************************************************)
\* Two spheres that cross each other, beside the program's s2.
sA == Sphere(Vec3_new(AsF32(3), 0, AsF32(-4)), AsF32(5))

sB == Sphere(Vec3_new(AsF32(-3), 0, AsF32(-4)), AsF32(5))

ScenePool == {s2, sA, sB}

Scenes == UNION {[1..n -> ScenePool] : n \in 0..MaxScene}

ColorRays ==
    {Ray(Vec3_new(0, 0, AsF32(1)), Vec3_new(0, 0, AsF32(-1))),
     Ray(Vec3_new(AsF32(3), 0, AsF32(2)), Vec3_new(0, 0, AsF32(-1))),
     Ray(Vec3_new(0, 0, 0), Vec3_new(AsF32(1), 0, AsF32(-3))),
     Ray(Vec3_new(0, AsF32(7), 0), Vec3_new(0, AsF32(1), 0))}

InitRayColor ==
    /\ pc = "ray_color"
    /\ ray \in ColorRays
    /\ objects \in Scenes
    /\ depth \in -1..MaxDepth
    /\ stack = <<>>
    /\ hit = None
    /\ p = Black
    /\ target = Black
    /\ ret = Black
    /\ hits = 0
    /\ tests = 0
    /\ rejects = 0
    /\ IdleMain
    /\ IdleHit
    /\ IdleWrite

NextRayColor == RayColorNext(FineRand)

SpecRayColor == InitRayColor /\ [][NextRayColor]_vars

(***************************************************************************)
(* A single Sphere::hit call                                               *)
(***************************************************************************)
HitOrigins == {Vec3_new(AsF32(x), 0, AsF32(-z)) : x \in 0..MaxX, z \in 0..MaxZ}

HitDirs ==
    {Vec3_new(AsF32(x), AsF32(y), AsF32(z)) : x, y, z \in -1..1}
        \ {Vec3_new(0, 0, 0)}

SphereHit ==
    /\ pc = "hit"
    /\ isect' = Sphere_hit(sphere, ray)
    /\ pc' = "hit returned"
    /\ UNCHANGED <<ray, objects, depth, stack, hit, p, target, ret, hits,
                   tests, rejects>>
    /\ UNCHANGED <<sphere, mainVars, writeVars>>

InitSphereHit ==
    /\ pc = "hit"
    /\ ray \in {Ray(o, d) : o \in HitOrigins, d \in HitDirs}
    /\ sphere \in {s2, sA}
    /\ isect = None
    /\ objects = <<>>
    /\ depth = 0
    /\ stack = <<>>
    /\ hit = None
    /\ p = Black
    /\ target = Black
    /\ ret = Black
    /\ hits = 0
    /\ tests = 0
    /\ rejects = 0
    /\ IdleMain
    /\ IdleWrite

SpecSphereHit == InitSphereHit /\ [][SphereHit]_vars

(***************************************************************************)
(* A single write_color call                                               *)
(***************************************************************************)
\* Channel sums: negative, zero, small, around the clamp, and large.
ChannelSums ==
    {-FX, 0, 1, FX \div 2, ClipMax - 1, ClipMax, FX, FX + 1, 2 * FX,
     MaxSamples * ClipMax, MaxSamples * ClipMax - 1, MaxSamples * FX}

WriteColor ==
    /\ pc = "write_color"
    /\ line' = write_color(pixel, spp)
    /\ pc' = "written"
    /\ UNCHANGED <<ray, objects, depth, stack, hit, p, target, ret, hits,
                   tests, rejects>>
    /\ UNCHANGED <<pixel, spp, mainVars, hitVars>>

InitWriteColor ==
    /\ pc = "write_color"
    /\ pixel \in {Vec3_new(x, y, z) : x, y, z \in ChannelSums}
    /\ spp \in 1..MaxSamples
    /\ line = <<>>
    /\ IdleColor
    /\ IdleMain
    /\ IdleHit

SpecWriteColor == InitWriteColor /\ [][WriteColor]_vars

(***************************************************************************)
(* Sphere::hit: C5, C6, C7, C8 (checked under SpecSphereHit)               *)
(***************************************************************************)
HitReturned == pc = "hit returned" /\ isect.tag = "Hit"

\* The two roots of the quadratic, as lines 191 and 193 write them.
SmallerRoot == FDiv(-hit_half_b(sphere, ray) - FSqrt(discriminant(sphere, ray)),
                    hit_a(sphere, ray))

LargerRoot == FDiv(-hit_half_b(sphere, ray) + FSqrt(discriminant(sphere, ray)),
                   hit_a(sphere, ray))

\* The ray's origin is outside the sphere: farther from the centre than the
\* radius.
OriginOutside == hit_c(sphere, ray) > 0

OriginInside == hit_c(sphere, ray) < 0

\* C5 as stated: every hit record Sphere::hit returns has t > 0.
C5_HitTPositive == HitReturned => isect.hit.t > 0

\* C5 as amended: every hit record Sphere::hit returns has t >= 0.
C5_HitTNonNegative == HitReturned => isect.hit.t >= 0

\* A ray that starts on the sphere's surface is hit at t = 0.
C5_HitAtZero == HitReturned /\ isect.hit.t = 0

\* C6 as stated: in every hit record, front is true whenever the ray's origin
\* is outside the sphere, grazing rays included, and false when the origin is
\* strictly inside.
C6_FrontWhenOutside ==
    HitReturned =>
        /\ OriginOutside => isect.hit.front
        /\ OriginInside => ~isect.hit.front

\* C6 as amended: front is true when the origin is outside the sphere and the
\* ray crosses it (discriminant > 0), false for a ray that only grazes it
\* (discriminant = 0), and false when the origin is strictly inside.
C6_FrontUnlessGrazing ==
    HitReturned =>
        /\ (OriginOutside /\ discriminant(sphere, ray) > 0) => isect.hit.front
        /\ discriminant(sphere, ray) = 0 => ~isect.hit.front
        /\ OriginInside => ~isect.hit.front

\* A ray from outside that only grazes the sphere is a hit with front false.
C6_GrazingHit ==
    /\ HitReturned
    /\ OriginOutside
    /\ discriminant(sphere, ray) = 0
    /\ ~isect.hit.front

\* C7: the stored normal is the outward normal (p - center) / radius when
\* front is true and its negation when front is false, and
\* dot(ray.dir, normal) <= 0.
C7_NormalOpposesRay ==
    HitReturned =>
        LET outward == div(sub(isect.hit.p, sphere.center), sphere.radius)
        IN  /\ isect.hit.normal =
                   IF isect.hit.front THEN outward ELSE neg(outward)
            /\ dot(ray.dir, isect.hit.normal) <= 0

\* A hit from inside the sphere: the outward normal points along the ray and
\* the stored normal is its negation.
C7_FlippedNormal ==
    /\ HitReturned
    /\ ~isect.hit.front
    /\ dot(ray.dir, isect.hit.normal) < 0

\* C8: Sphere::hit returns Missed when the discriminant is negative or both
\* roots are negative; otherwise Hit with t the smaller root when that root
\* is >= 0, and the larger root when the smaller is negative and the larger
\* is >= 0; a root equal to 0 is accepted.
C8_RootSelection ==
    pc = "hit returned" =>
        IF discriminant(sphere, ray) < 0 THEN isect = Missed
        ELSE IF SmallerRoot >= 0
             THEN isect.tag = "Hit" /\ isect.hit.t = SmallerRoot
             ELSE IF LargerRoot >= 0
                  THEN isect.tag = "Hit" /\ isect.hit.t = LargerRoot
                  ELSE isect = Missed

\* The smaller root is negative and the larger root, equal to 0, is returned.
C8_LargerRootZero ==
    /\ HitReturned
    /\ SmallerRoot < 0
    /\ LargerRoot = 0
    /\ isect.hit.t = 0

(***************************************************************************)
(* write_color: C4 (checked under SpecWriteColor)                          *)
(***************************************************************************)
Channels == <<pixel.x, pixel.y, pixel.z>>

\* value / samples_per_pixel, which the code computes as value * (1 / spp).
Average(v) == FMul(v, FDiv(AsF32(1), AsF32(spp)))

\* C4: each channel write_color emits is the integer truncation of
\* clip(value / samples_per_pixel, 0, 0.999) * 255 and lies in 0..254; a
\* channel whose average is 0.999 or more is emitted as 254, and one whose
\* average is 0 or less as 0.
C4_ChannelRange ==
    pc = "written" =>
        /\ Len(line) = 3
        /\ \A k \in 1..3 :
              LET v == Channels[k]
                  avg == Average(v)
                  clipped == IF avg > ClipMax THEN ClipMax
                             ELSE IF avg < 0 THEN 0
                             ELSE avg
              IN  /\ line[k] = (clipped * 255) \div FX
                  /\ line[k] \in 0..254
                  /\ 1000 * v >= 999 * spp * FX => line[k] = 254
                  /\ v <= 0 => line[k] = 0

\* The sum (2, 2, 2) over 2 samples is written as 254 254 254.
C4_ClampedTo254 ==
    /\ pc = "written"
    /\ pixel = Vec3_new(2 * FX, 2 * FX, 2 * FX)
    /\ spp = 2
    /\ line = <<254, 254, 254>>

(***************************************************************************)
(* ray_color: C2, C3 and random_in_unit_sphere: C9 (under SpecRayColor)    *)
(***************************************************************************)
\* What Sphere::hit returns for the k-th sphere of the scene sc.
HitOf(sc, k) == Sphere_hit(sc[k], ray)

\* The spheres of the scene sc that return Hit.
Hitters(sc) == {k \in 1..Len(sc) : HitOf(sc, k).tag = "Hit"}

\* The spheres of sc whose hit has the least t.
Nearest(sc) ==
    {k \in Hitters(sc) :
        \A m \in Hitters(sc) : HitOf(sc, k).hit.t <= HitOf(sc, m).hit.t}

\* The first of a non-empty set of indices.
First(K) == CHOOSE k \in K : \A m \in K : k <= m

\* The scene in the order perm.
Permuted(sc, perm) == [k \in 1..Len(sc) |-> sc[perm[k]]]

\* C2: the hit ray_color keeps has the least t of all spheres that return
\* Hit; of several spheres with that t the first in iteration order is kept;
\* the result is a miss exactly when no sphere returns Hit; and when the
\* least t is unique the same hit is kept for every order of the scene.
C2_NearestHit ==
    pc = "match" =>
        /\ hit = None <=> Hitters(objects) = {}
        /\ hit # None =>
              hit = Some(HitOf(objects, First(Nearest(objects))).hit)
        /\ Cardinality(Nearest(objects)) = 1 =>
              \A perm \in Permutations(1..Len(objects)) :
                  nearest_hit(ray, Permuted(objects, perm)) = hit

\* Two spheres are hit at the same least t with different records, and the
\* first of them is kept.
C2_TieKeepsFirst ==
    /\ pc = "match"
    /\ \E k, m \in Nearest(objects) :
          /\ k < m
          /\ HitOf(objects, k).hit # HitOf(objects, m).hit
          /\ hit = Some(HitOf(objects, k).hit)

RECURSIVE HalvedTimes(_, _)
\* v multiplied by 0.5, k times.
HalvedTimes(v, k) ==
    IF k = 0 THEN v ELSE HalvedTimes(mul(v, FX \div 2), k - 1)

\* The top-level ray_color call has returned.
TopReturned == pc = "return" /\ stack = <<>>

\* C3: ray_color returns black when depth <= 0, testing no sphere; when the
\* path hits on its first k rays, k < depth, and then misses, it returns the
\* background of the last ray multiplied by 0.5 k times; when all of the
\* first depth rays hit, it returns black.
C3_RayColorResult ==
    TopReturned =>
        /\ depth <= 0 => ret = Black /\ tests = 0 /\ hits = 0
        /\ (depth >= 1 /\ hit = None) =>
              hits < depth /\ ret = HalvedTimes(background(ray), hits)
        /\ (depth >= 1 /\ hit # None) => hits = depth /\ ret = Black
        /\ objects = <<>> /\ depth >= 1 => hits = 0 /\ ret = background(ray)

\* A path that hits once, then misses, with depth to spare: half the
\* background, which is not black.
C3_HitThenMiss ==
    /\ TopReturned
    /\ depth >= 2
    /\ hits = 1
    /\ hit = None
    /\ ret = mul(background(ray), FX \div 2)
    /\ ret # Black

\* C9: random_in_unit_sphere returns only a drawn vector p with
\* squared_length(p) < 1; every draw with squared length >= 1, exactly 1
\* included, is rejected and redrawn, however many draws were rejected before;
\* and the value returned is the accepted draw itself.
C9_RejectionSampling ==
    [][pc = "random_in_unit_sphere" =>
          /\ p'.x \in -FX..(FX - 1) /\ p'.y \in -FX..(FX - 1)
          /\ p'.z \in -FX..(FX - 1)
          /\ len2(p') >= FX => pc' = "random_in_unit_sphere" /\ ret' = ret
          /\ len2(p') < FX => pc' = "bounce" /\ ret' = p'
          /\ pc' = "bounce" => len2(ret') < FX]_vars

\* A draw of squared length exactly 1 is rejected after MaxRejects rejected
\* draws, and the loop goes on.
C9_RejectedAtOne ==
    /\ pc = "random_in_unit_sphere"
    /\ rejects = MaxRejects
    /\ len2(p) = FX

(***************************************************************************)
(* main: C1 (under Spec) and C10 (under FairSpec)                          *)
(***************************************************************************)
Pixels == image_width * image_height

\* The writer has started: the header or a body line is printed.
WriterStarted == out # NoOut

\* C1: the buffer receives one append per pixel, the k-th (from 0) for the
\* pixel j = height-1 - (k div width), i = k mod width; no entry changes once
\* appended; the writer starts only when the buffer holds width*height
\* entries, and its k-th body line is write_color of the k-th entry.
C1_RenderOrder ==
    /\ [][image' # image =>
             /\ image' = Append(image, color)
             /\ Len(image) < Pixels
             /\ j = image_height - 1 - (Len(image) \div image_width)
             /\ i = Len(image) % image_width
             /\ ~WriterStarted]_vars
    /\ [](WriterStarted => Len(image) = Pixels)
    /\ [](/\ Len(out.body) <= Len(image)
          /\ \A k \in 1..Len(out.body) :
                out.body[k] = write_color(image[k], samples_per_pixel))
    /\ [][out'.body # out.body =>
             \/ out.body = <<>> /\ out'.body = <<>>
             \/ /\ Len(out'.body) = Len(out.body) + 1
                /\ SubSeq(out'.body, 1, Len(out.body)) = out.body]_vars
    /\ [](pc = "done" => Len(out.body) = Pixels)

\* The writer is half way through a fully rendered buffer.
C1_WriterRunning ==
    /\ pc = "write"
    /\ Len(image) = Pixels
    /\ Len(out.body) > 0
    /\ Len(out.body) < Pixels

\* ray_color is running or returning.
InRayColor ==
    pc \in {"ray_color", "match", "random_in_unit_sphere", "bounce", "return"}

\* C10: with every rejection loop eventually accepting, the render runs to
\* completion: a top-level ray_color(ray, scene, max_depth) nests at most
\* max_depth recursive calls, each with depth one less than its caller's;
\* every pixel accumulates exactly samples_per_pixel samples; and the
\* program reaches its end with all width*height pixels emitted.
C10_RunsToCompletion ==
    /\ [](InRayColor =>
            /\ Len(stack) <= max_depth
            /\ depth = max_depth - Len(stack)
            /\ \A k \in 1..Len(stack) : stack[k] = max_depth - (k - 1))
    /\ [][depth' # depth /\ InRayColor /\ pc' # "return" =>
             depth' = depth - 1 /\ stack' = Append(stack, depth)]_vars
    /\ [](s <= samples_per_pixel)
    /\ [][s' # s =>
             \/ s' = s + 1 /\ color' = add(color, ret) /\ image' = image
             \/ s = samples_per_pixel /\ s' = 0 /\ image' # image]_vars
    /\ [][image' # image => s = samples_per_pixel]_vars
    /\ <>(pc = "done" /\ Len(out.body) = Pixels /\ Len(image) = Pixels)

\* The program has ended with every pixel emitted.
C10_Done ==
    /\ pc = "done"
    /\ Len(out.body) = Pixels
    /\ Len(image) = Pixels

====
